---- MODULE Spec2Model ----
(***************************************************************************)
(* Model of system_map.py: FileSystemScanner, DataProcessor,               *)
(* HTMLGenerator, SystemMapPipeline and main().                            *)
(*                                                                         *)
(* The string operations work on sequences of one-character strings, so    *)
(* that lower(), startswith(), substring tests and glob matching are       *)
(* computed.                                                               *)
(* Sizes are whole KiB: st_size / (1024 * 1024) is the rational            *)
(* size / KIB_PER_MB, and every comparison with a number of MB is scaled   *)
(* accordingly.  Floating-point rounding of the sums is not modelled.      *)
(*                                                                         *)
(* The file system is a sequence of entries in enumeration (pre-order)     *)
(* order; entry 1 is the path given to the scanner.                        *)
(***************************************************************************)
EXTENDS Integers, Sequences, FiniteSets, TLC

VARIABLES
    fs,               \* the file system below (and including) the scanned path
    pc,               \* where the program is
    max_depth,        \* argument max_depth of the scan in progress
    scan_data,        \* result of scan_directory
    processed,        \* result of process_scan_data
    clock,            \* datetime.now()
    output_path,      \* argument output_path of SystemMapPipeline.run
    ext_file,         \* the file at the output path given outside the tree
    exit_code,        \* value returned by main()
    raised,           \* exception raised during the call of main()
    printed,          \* what main() printed last
    run_no,           \* number of calls of main() so far
    first,            \* what the first call of run() produced
    fs_at_start,      \* fs when run() was called
    ext_at_start,     \* ext_file when run() was called
    generator_calls,  \* calls of generate_html during this run
    writes,           \* files opened for writing during this run
    write_failed,     \* writing the document failed during this run
    name_parts,       \* parts of the name given to _determine_category
    dir_category      \* what _determine_category returned for that name

scanvars == <<fs, pc, max_depth, scan_data, processed, clock>>

runvars == <<output_path, ext_file, exit_code, raised, printed, run_no, first,
             fs_at_start, ext_at_start, generator_calls, writes, write_failed>>

catvars == <<name_parts, dir_category>>

vars == <<scanvars, runvars, catvars>>

(***************************************************************************)
(* Bounds of the model.                                                    *)
(***************************************************************************)
MaxEntries == 4      \* entries below the scanned root
MaxIrregular == 1    \* entries that are excluded or cannot be examined
MaxFsDepth == 4      \* deepest entry of the file system
MaxDepthArg == 3     \* largest max_depth argument tried (the default is 3)
MaxLimit == 4        \* largest limit tried for _get_top_directories
MaxRunEntries == 2   \* entries below the root when main() is run
MaxExampleEntries == 3  \* entries below the root of the example
MaxRuns == 2         \* calls of main() in succession
MaxNameParts == 3    \* parts of a directory name given to _determine_category

(***************************************************************************)
(* Config                                                                  *)
(***************************************************************************)
KIB_PER_MB == 1024

EXCLUDE_DIRS ==
    { <<".", "g", "i", "t">>,
      <<".", "c", "a", "c", "h", "e">>,
      <<"n", "o", "d", "e", "_", "m", "o", "d", "u", "l", "e", "s">>,
      <<"_", "_", "p", "y", "c", "a", "c", "h", "e", "_", "_">>,
      <<".", "p", "y", "t", "e", "s", "t", "_", "c", "a", "c", "h", "e">>,
      <<"v", "e", "n", "v">>,
      <<"e", "n", "v">>,
      <<".", "e", "n", "v">>,
      <<".", "v", "e", "n", "v">>,
      <<"L", "i", "b", "r", "a", "r", "y">>,
      <<".", "T", "r", "a", "s", "h">>,
      <<"A", "p", "p", "l", "i", "c", "a", "t", "i", "o", "n", "s">>,
      <<"P", "i", "c", "t", "u", "r", "e", "s">>,
      <<"M", "o", "v", "i", "e", "s">>,
      <<"M", "u", "s", "i", "c">> }

EXCLUDE_PATTERNS ==
    { <<"*", ".", "p", "y", "c">>,
      <<"*", ".", "p", "y", "o">>,
      <<".", "D", "S", "_", "S", "t", "o", "r", "e">>,
      <<"*", ".", "s", "w", "p">>,
      <<"*", ".", "s", "w", "o">> }

\* MIN_SIZE_TO_REPORT = 0.1 MB, kept as the fraction 1/10
MIN_SIZE_TO_REPORT_NUM == 1
MIN_SIZE_TO_REPORT_DEN == 10

COLORS ==
    [projects |-> "#F687B3", knowledge |-> "#63B3ED", tools |-> "#68D391",
     assets |-> "#F6E05E", development |-> "#B794F4", config |-> "#F6AD55",
     temp |-> "#FED7AA", other |-> "#718096"]

CATEGORY_PATTERNS ==
    << [category |-> "projects", patterns |->
          << <<"p", "r", "o", "j", "e", "c", "t">>,
             <<"a", "p", "p">>,
             <<"s", "i", "t", "e">>,
             <<"c", "l", "i", "e", "n", "t">>,
             <<"s", "e", "r", "v", "e", "r">> >>],
       [category |-> "knowledge", patterns |->
          << <<"k", "n", "o", "w", "l", "e", "d", "g", "e">>,
             <<"d", "o", "c", "s">>,
             <<"w", "i", "k", "i">>,
             <<"n", "o", "t", "e", "s">>,
             <<"l", "e", "a", "r", "n", "i", "n", "g">> >>],
       [category |-> "tools", patterns |->
          << <<"t", "o", "o", "l", "s">>,
             <<"u", "t", "i", "l", "s">>,
             <<"s", "c", "r", "i", "p", "t", "s">>,
             <<"a", "u", "t", "o", "m", "a", "t", "i", "o", "n">> >>],
       [category |-> "assets", patterns |->
          << <<"a", "s", "s", "e", "t", "s">>,
             <<"i", "m", "a", "g", "e", "s">>,
             <<"m", "e", "d", "i", "a">>,
             <<"r", "e", "s", "o", "u", "r", "c", "e", "s">> >>],
       [category |-> "development", patterns |->
          << <<"d", "e", "v">>,
             <<"d", "e", "v", "e", "l", "o", "p", "m", "e", "n", "t">>,
             <<"c", "o", "d", "e">>,
             <<"s", "r", "c">> >>],
       [category |-> "config", patterns |->
          << <<".">>,
             <<"c", "o", "n", "f", "i", "g">>,
             <<"s", "e", "t", "t", "i", "n", "g", "s">>,
             <<"p", "r", "e", "f", "e", "r", "e", "n", "c", "e", "s">> >>],
       [category |-> "temp", patterns |->
          << <<"t", "e", "m", "p">>,
             <<"t", "m", "p">>,
             <<"c", "a", "c", "h", "e">>,
             <<"i", "n", "b", "o", "x">>,
             <<"d", "o", "w", "n", "l", "o", "a", "d", "s">> >>] >>

(***************************************************************************)
(* Strings                                                                 *)
(***************************************************************************)
UpperCase ==
    <<"A", "B", "C", "D", "E", "F", "G", "H", "I", "J", "K", "L", "M",
      "N", "O", "P", "Q", "R", "S", "T", "U", "V", "W", "X", "Y", "Z">>

LowerCase ==
    <<"a", "b", "c", "d", "e", "f", "g", "h", "i", "j", "k", "l", "m",
      "n", "o", "p", "q", "r", "s", "t", "u", "v", "w", "x", "y", "z">>

\* str.lower(), one character
LowerChar(c) ==
    IF \E i \in 1..26 : UpperCase[i] = c
    THEN LowerCase[CHOOSE i \in 1..26 : UpperCase[i] = c]
    ELSE c

\* str.lower()
lower(s) == [i \in 1..Len(s) |-> LowerChar(s[i])]

\* str.startswith(prefix)
startswith(s, prefix) ==
    /\ Len(prefix) <= Len(s)
    /\ SubSeq(s, 1, Len(prefix)) = prefix

\* str.endswith(suffix)
endswith(s, suffix) ==
    /\ Len(suffix) <= Len(s)
    /\ SubSeq(s, Len(s) - Len(suffix) + 1, Len(s)) = suffix

\* the Python test "pattern in s" on strings
contains(s, pattern) ==
    \E i \in 1..(Len(s) - Len(pattern) + 1) :
        SubSeq(s, i, i + Len(pattern) - 1) = pattern

\* PurePath.match(pattern) for the one-component patterns of EXCLUDE_PATTERNS:
\* a leading "*" matches any prefix of the name, other characters literally
match(name, pattern) ==
    IF Len(pattern) > 0 /\ pattern[1] = "*"
    THEN endswith(name, Tail(pattern))
    ELSE name = pattern

(***************************************************************************)
(* Names.  A name is a string; NameChars gives the characters of the names *)
(* that occur in the file systems explored.                                *)
(***************************************************************************)
NameChars ==
    ("home" :> <<"h", "o", "m", "e">>) @@
    ("Music" :> <<"M", "u", "s", "i", "c">>) @@
    ("01_Projects" :> <<"0", "1", "_", "P", "r", "o", "j", "e", "c", "t", "s">>) @@
    ("env_docs" :> <<"e", "n", "v", "_", "d", "o", "c", "s">>) @@
    (".git" :> <<".", "g", "i", "t">>) @@
    ("a.txt" :> <<"a", ".", "t", "x", "t">>) @@
    ("data.bin" :> <<"d", "a", "t", "a", ".", "b", "i", "n">>) @@
    ("big.iso" :> <<"b", "i", "g", ".", "i", "s", "o">>) @@
    ("x.pyc" :> <<"x", ".", "p", "y", "c">>) @@
    ("gone.db" :> <<"g", "o", "n", "e", ".", "d", "b">>) @@
    ("locked.db" :> <<"l", "o", "c", "k", "e", "d", ".", "d", "b">>) @@
    ("system_map.html" :> <<"s", "y", "s", "t", "e", "m", "_", "m", "a", "p", ".", "h", "t", "m", "l">>)

\* the characters of a name
Chars(name) == NameChars[name]

RootNames == {"home", "Music"}

\* "env_docs" holds the excluded name "env" without being it
DirNames == {"01_Projects", "env_docs", ".git"}

\* perm: "ok"      the entry can be examined
\*       "nostat"  is_file() succeeds but stat() raises (the file vanished)
\*       "eacces"  is_file() on the entry raises PermissionError
FileSamples ==
    { [name |-> "a.txt",     size |-> 100,  perm |-> "ok"],
      [name |-> "data.bin",  size |-> 2048, perm |-> "ok"],
      [name |-> "x.pyc",     size |-> 2048, perm |-> "ok"],
      [name |-> "gone.db",   size |-> 2048, perm |-> "nostat"],
      [name |-> "locked.db", size |-> 2048, perm |-> "eacces"] }

\* the entries of the example: a 2 MB file, the directory 01_Projects and a
\* 150 MB file
ExampleDirNames == {"01_Projects"}

ExampleFileSamples ==
    { [name |-> "data.bin", size |-> 2 * KIB_PER_MB,   perm |-> "ok"],
      [name |-> "big.iso",  size |-> 150 * KIB_PER_MB, perm |-> "ok"] }

(***************************************************************************)
(* The file system                                                         *)
(***************************************************************************)
DirEntry(d, n) ==
    [depth |-> d, kind |-> "dir", name |-> n, size |-> 0, perm |-> "ok"]

FileEntry(d, f) ==
    [depth |-> d, kind |-> "file", name |-> f.name, size |-> f.size,
     perm |-> f.perm]

\* a path that does not exist
MissingEntry(n) ==
    [depth |-> 0, kind |-> "missing", name |-> n, size |-> 0, perm |-> "ok"]

Max(S) == CHOOSE x \in S : \A y \in S : y <= x

\* index of the directory that holds entry j (0 for the root)
ParentOf(f, j) ==
    IF f[j].depth = 0 THEN 0
    ELSE Max({k \in 1..(j - 1) : f[k].depth = f[j].depth - 1})

\* Path.iterdir(): the entries of directory i, in enumeration order
iterdir(f, i) ==
    SelectSeq([k \in 1..Len(f) |-> k], LAMBDA j : j > i /\ ParentOf(f, j) = i)

\* str(path): the names from the root down to entry i
RECURSIVE PathOf(_, _)
PathOf(f, i) ==
    IF ParentOf(f, i) = 0 THEN <<f[i].name>>
    ELSE Append(PathOf(f, ParentOf(f, i)), f[i].name)

(***************************************************************************)
(* FileSystemScanner                                                       *)
(***************************************************************************)
None == [none |-> TRUE]

\* child_info['size'] >= MIN_SIZE_TO_REPORT, with size in KiB
MeetsMinSize(size) ==
    size * MIN_SIZE_TO_REPORT_DEN >= MIN_SIZE_TO_REPORT_NUM * KIB_PER_MB

_should_exclude_file(name) ==
    \E pattern \in EXCLUDE_PATTERNS : match(name, pattern)

\* the last category with a pattern in name_lower is taken
FirstPatternMatch_Last(name_lower) ==
    LET hits == {c \in 1..Len(CATEGORY_PATTERNS) :
                    \E p \in 1..Len(CATEGORY_PATTERNS[c].patterns) :
                        contains(name_lower, CATEGORY_PATTERNS[c].patterns[p])}
    IN  IF hits = {} THEN 0 ELSE CHOOSE c \in hits : \A o \in hits : c >= o

\* lines 163-166: first category, in the order of CATEGORY_PATTERNS, one of
\* whose patterns occurs in name_lower; 0 if the loops end without a return
FirstPatternMatch(name_lower) ==
    LET hits == {c \in 1..Len(CATEGORY_PATTERNS) :
                    \E p \in 1..Len(CATEGORY_PATTERNS[c].patterns) :
                        contains(name_lower, CATEGORY_PATTERNS[c].patterns[p])}
    IN  IF hits = {} THEN 0 ELSE CHOOSE c \in hits : \A o \in hits : c <= o

\* lines 168-185: the special cases tried once no pattern matched
SpecialCases(name) ==
    IF startswith(name, <<".">>) THEN "config"
    ELSE IF \E p \in {<<"0", "1">>, <<"0", "2">>, <<"0", "3">>,
                      <<"0", "4">>, <<"0", "5">>, <<"9", "9">>} :
                startswith(name, p)
    THEN IF contains(name, <<"0", "1">>) THEN "projects"
         ELSE IF contains(name, <<"0", "2">>) THEN "knowledge"
         ELSE IF contains(name, <<"0", "3">>)
                 \/ contains(name, <<"0", "4">>) THEN "tools"
         ELSE IF contains(name, <<"0", "5">>) THEN "assets"
         ELSE IF contains(name, <<"9", "9">>) THEN "temp"
         ELSE "other"
    ELSE "other"

\* the hidden-name rule is tried before the patterns
_determine_category_HiddenFirst(name) ==
    LET name_lower == lower(name)
        hit == FirstPatternMatch(name_lower)
    IN  IF startswith(name, <<".">>) THEN "config"
        ELSE IF hit # 0 THEN CATEGORY_PATTERNS[hit].category
        ELSE SpecialCases(name)

_determine_category(name) ==
    LET name_lower == lower(name)
        hit == FirstPatternMatch(name_lower)
    IN  IF hit # 0 THEN CATEGORY_PATTERNS[hit].category
        ELSE SpecialCases(name)

\* _determine_category and _should_exclude_file over the names that occur,
\* evaluated once per name
CategoryOfName ==
    [name \in DOMAIN NameChars |-> _determine_category(Chars(name))]

ExcludedFileName ==
    [name \in DOMAIN NameChars |-> _should_exclude_file(Chars(name))]

\* COLORS.get(category, COLORS['other'])
ColorOf(category) ==
    IF category \in DOMAIN COLORS THEN COLORS[category] ELSE COLORS["other"]

\* lines 124-126: the file's size and the file itself are counted
AddFile(dir_info, item) ==
    [dir_info EXCEPT !.size = @ + item.size, !.file_count = @ + 1]

\* the child's files are left out of the parent's file count
AddChild_NoCount(dir_info, child_info) ==
    [dir_info EXCEPT !.children = Append(@, child_info),
                     !.size = @ + child_info.size]

\* lines 133-135: a kept child is appended and its totals are added
AddChild(dir_info, child_info) ==
    [dir_info EXCEPT !.children = Append(@, child_info),
                     !.size = @ + child_info.size,
                     !.file_count = @ + child_info.file_count]

\* every scanned child is kept, whatever its size
KeepsChild_NoThreshold(child_info) == child_info # None

\* line 132: "if child_info and child_info['size'] >= MIN_SIZE_TO_REPORT"
KeepsChild(child_info) ==
    child_info # None /\ MeetsMinSize(child_info.size)

\* the directories at depth max_depth are entered as well
Descends_OneDeeper(current_depth, maxd) == current_depth <= maxd

\* line 130: "current_depth < max_depth"
Descends(current_depth, maxd) == current_depth < maxd

\* what was accumulated before the error is thrown away
OnPermissionError_Reset(dir_info) ==
    [dir_info EXCEPT !.size = 0, !.file_count = 0, !.children = <<>>,
                     !.warned = TRUE]

\* lines 137-138: "except PermissionError: logger.warning(...)"; dir_info is
\* left as accumulated.  "warned" is not a key of the dictionary: it records
\* that the warning "Permission denied: <path>" was logged for the directory
OnPermissionError(dir_info) == [dir_info EXCEPT !.warned = TRUE]

\* the file is counted although its size is unknown
OnStatError_Counted(dir_info) == [dir_info EXCEPT !.file_count = @ + 1]

\* lines 127-128: "except: pass"; stat() raised before either total changed
OnStatError(dir_info) == dir_info

\* a name is excluded when an excluded name occurs in it
ExcludedDirName_Substring ==
    [name \in DOMAIN NameChars |->
        \E excluded \in EXCLUDE_DIRS : contains(Chars(name), excluded)]

\* line 106: "path.name in self.config.EXCLUDE_DIRS", for the names explored
ExcludedDirName ==
    [name \in DOMAIN NameChars |-> Chars(name) \in EXCLUDE_DIRS]

RECURSIVE _scan_recursive(_, _, _, _)
RECURSIVE ScanItems(_, _, _, _, _, _)

\* the loop "for item in path.iterdir()" from item k on; dir_info is the
\* dictionary accumulated so far
ScanItems(f, items, k, dir_info, current_depth, maxd) ==
    IF k > Len(items) THEN dir_info
    ELSE
      LET item == f[items[k]] IN
      IF item.perm = "eacces"
      THEN \* PermissionError leaves the loop
           OnPermissionError(dir_info)
      ELSE IF item.kind = "file" /\ ~ExcludedFileName[item.name]
      THEN IF item.perm = "nostat"
           THEN ScanItems(f, items, k + 1, OnStatError(dir_info),
                          current_depth, maxd)
           ELSE ScanItems(f, items, k + 1, AddFile(dir_info, item),
                          current_depth, maxd)
      ELSE IF item.kind = "dir" /\ Descends(current_depth, maxd)
      THEN LET child_info ==
                   _scan_recursive(f, items[k], current_depth + 1, maxd)
           IN  IF KeepsChild(child_info)
               THEN ScanItems(f, items, k + 1, AddChild(dir_info, child_info),
                              current_depth, maxd)
               ELSE ScanItems(f, items, k + 1, dir_info, current_depth, maxd)
      ELSE ScanItems(f, items, k + 1, dir_info, current_depth, maxd)

_scan_recursive(f, i, current_depth, maxd) ==
    IF f[i].kind # "dir" THEN None
    ELSE IF ExcludedDirName[f[i].name] THEN None
    ELSE
      LET category == CategoryOfName[f[i].name]
          dir_info == [name |-> f[i].name,
                       path |-> PathOf(f, i),
                       size |-> 0,
                       file_count |-> 0,
                       children |-> <<>>,
                       category |-> category,
                       color |-> "None",
                       warned |-> FALSE]
          scanned == ScanItems(f, iterdir(f, i), 1, dir_info,
                               current_depth, maxd)
      IN  [scanned EXCEPT !.color = ColorOf(scanned.category)]

scan_directory(f, maxd) == _scan_recursive(f, 1, 0, maxd)

(***************************************************************************)
(* DataProcessor                                                           *)
(***************************************************************************)
\* dictionaries are functions; EmptyDict has no key
EmptyDict == [k \in {} |-> 0]

\* the bucket is set to the node's totals instead of being added to
AddToBucket_Overwrite(categories, node) ==
    [categories EXCEPT ![node.category].size = node.size,
                       ![node.category].count = node.file_count]

\* lines 229-230: the node's totals are added to the bucket of its category
AddToBucket(categories, node) ==
    [categories EXCEPT ![node.category].size = @ + node.size,
                       ![node.category].count = @ + node.file_count]

RECURSIVE aggregate_recursive(_, _)
RECURSIVE AggregateChildren(_, _, _)

AggregateChildren(children, k, categories) ==
    IF k > Len(children) THEN categories
    ELSE AggregateChildren(children, k + 1,
                           aggregate_recursive(children[k], categories))

aggregate_recursive(node, categories) ==
    LET category == node.category
        c1 == IF category \notin DOMAIN categories
              THEN categories @@
                   (category :> [size |-> 0, count |-> 0, color |-> node.color])
              ELSE categories
    IN  AggregateChildren(node.children, 1, AddToBucket(c1, node))

_aggregate_by_category(data) == aggregate_recursive(data, EmptyDict)

\* one level too many is collected
IsTopLevel_3(level) == level <= 3

\* line 246: "if level <= 2"
IsTopLevel(level) == level <= 2

RECURSIVE collect_dirs(_, _, _)
RECURSIVE CollectChildren(_, _, _, _)

CollectChildren(children, k, level, all_dirs) ==
    IF k > Len(children) THEN all_dirs
    ELSE CollectChildren(children, k + 1, level,
                         collect_dirs(children[k], level, all_dirs))

collect_dirs(node, level, all_dirs) ==
    LET a1 == IF IsTopLevel(level)
              THEN Append(all_dirs, [name |-> node.name,
                                     size |-> node.size,
                                     category |-> node.category,
                                     color |-> node.color])
              ELSE all_dirs
    IN  CollectChildren(node.children, 1, level + 1, a1)

\* x goes before the elements of its own size: equal sizes come out in
\* reverse order
InsertBySize_Unstable(sorted, x) ==
    LET before == {i \in 0..Len(sorted) :
                      \A j \in 1..i : sorted[j].size > x.size}
        pos == Max(before)
    IN  SubSeq(sorted, 1, pos) \o <<x>> \o SubSeq(sorted, pos + 1, Len(sorted))

\* x goes after every element that does not sort after it: with
\* reverse=True the sort is stable, equal sizes keep their order
InsertBySize(sorted, x) ==
    LET before == {i \in 0..Len(sorted) :
                      \A j \in 1..i : sorted[j].size >= x.size}
        pos == Max(before)
    IN  SubSeq(sorted, 1, pos) \o <<x>> \o SubSeq(sorted, pos + 1, Len(sorted))

\* sorted(all_dirs, key=lambda x: x['size'], reverse=True)
RECURSIVE SortedBySize(_)
SortedBySize(all_dirs) ==
    IF all_dirs = <<>> THEN <<>>
    ELSE InsertBySize(SortedBySize(SubSeq(all_dirs, 1, Len(all_dirs) - 1)),
                      all_dirs[Len(all_dirs)])

\* the slice s[:limit]
SliceTo(s, limit) ==
    IF limit >= 0
    THEN SubSeq(s, 1, IF limit < Len(s) THEN limit ELSE Len(s))
    ELSE SubSeq(s, 1, IF Len(s) + limit > 0 THEN Len(s) + limit ELSE 0)

DEFAULT_LIMIT == 10

_get_top_directories(data, limit) ==
    SliceTo(SortedBySize(collect_dirs(data, 0, <<>>)), limit)

RECURSIVE convert_node(_)
convert_node(node) ==
    [name |-> node.name,
     value |-> node.size,
     count |-> node.file_count,
     color |-> node.color,
     children |-> [k \in 1..Len(node.children) |->
                      convert_node(node.children[k])]]

_prepare_tree_data(data) == convert_node(data)

\* round(n / d) to the nearest integer, ties to even, as the format
\* specifications ".0f" and ".1f" do
RoundHalfEven(n, d) ==
    LET q == n \div d
        r == n % d
    IN  IF 2 * r > d THEN q + 1
        ELSE IF 2 * r < d THEN q
        ELSE IF q % 2 = 0 THEN q ELSE q + 1

\* _format_size(size_mb): <<number, unit>>; GB are in tenths
_format_size(size) ==
    IF size >= 1000 * KIB_PER_MB
    THEN [tenths |-> RoundHalfEven(size * 10, 1000 * KIB_PER_MB), unit |-> "GB"]
    ELSE [whole |-> RoundHalfEven(size, KIB_PER_MB), unit |-> "MB"]

Min2(a, b) == IF a <= b THEN a ELSE b
Max2(a, b) == IF a >= b THEN a ELSE b

\* the default parent_id=None; node ids are never negative
NoParent == 0 - 1

\* "if parent_id:" - the id 0 of the root is falsy
HasParent_Truthy(parent_id) == parent_id # NoParent /\ parent_id # 0

\* line 299: "if parent_id is not None"
HasParent(parent_id) == parent_id # NoParent

\* the children are put on their parent's level
ChildLevel_Same(level) == level

\* line 308: "create_network(child, current_id, level + 1)"
ChildLevel(level) == level + 1

RECURSIVE create_network(_, _, _, _)
RECURSIVE NetworkChildren(_, _, _, _, _)

NetworkChildren(children, k, current_id, level, st) ==
    IF k > Len(children) THEN st
    ELSE NetworkChildren(children, k + 1, current_id, level,
                         create_network(children[k], current_id, level, st))

\* st holds the closure's nodes, edges and node_id.  The visual size
\* min(50, max(20, size / 100)) is kept in units of 1/(100 * KIB_PER_MB),
\* the width min(5, max(1, size / 1000)) in units of 1/(1000 * KIB_PER_MB)
create_network(node, parent_id, level, st) ==
    LET current_id == st.node_id
        n1 == Append(st.nodes,
                     [id |-> current_id,
                      label |-> [name |-> node.name,
                                 size |-> _format_size(node.size)],
                      size |-> Min2(50 * 100 * KIB_PER_MB,
                                    Max2(20 * 100 * KIB_PER_MB, node.size)),
                      color |-> node.color,
                      level |-> level])
        e1 == IF HasParent(parent_id)
              THEN Append(st.edges,
                          [from |-> parent_id,
                           to |-> current_id,
                           width |-> Min2(5 * 1000 * KIB_PER_MB,
                                          Max2(1000 * KIB_PER_MB, node.size))])
              ELSE st.edges
    IN  NetworkChildren(node.children, 1, current_id, ChildLevel(level),
                        [nodes |-> n1, edges |-> e1, node_id |-> current_id + 1])

_prepare_network_data(data) ==
    LET st == create_network(data, NoParent, 0,
                             [nodes |-> <<>>, edges |-> <<>>, node_id |-> 0])
    IN  [nodes |-> st.nodes, edges |-> st.edges]

\* process_scan_data for a scan result that is a dictionary; now is the
\* value of datetime.now()
process_scan_data(data, now) ==
    [total_size |-> data.size,
     total_files |-> data.file_count,
     scan_date |-> now,
     categories |-> _aggregate_by_category(data),
     top_directories |-> _get_top_directories(data, DEFAULT_LIMIT),
     tree_data |-> _prepare_tree_data(data),
     network_data |-> _prepare_network_data(data)]

(***************************************************************************)
(* Environment: the file system is built before the scan                   *)
(***************************************************************************)
\* an entry the scanner skips, or one that cannot be examined
IsIrregular(e) ==
    \/ e.perm # "ok"
    \/ e.kind = "dir" /\ Chars(e.name) \in EXCLUDE_DIRS
    \/ e.kind = "file" /\ ExcludedFileName[e.name]

\* entry e may be appended to the file system f holding at most maxe entries
\* below its root
CanAppend(f, e, maxe) ==
    LET last == f[Len(f)]
        j == Len(f) + 1
        g == Append(f, e)
        d == e.depth
    IN  /\ Len(f) - 1 < maxe
        /\ Cardinality({k \in 2..j : IsIrregular(g[k])}) <= MaxIrregular
        /\ d >= 1
        /\ d <= MaxFsDepth
        /\ d <= (IF last.kind = "dir" THEN last.depth + 1 ELSE last.depth)
        /\ f[ParentOf(g, j)].kind = "dir"
        /\ \A k \in 1..Len(f) :
              ParentOf(g, k) = ParentOf(g, j) => f[k].name # e.name

Mkdir(d, n, maxe) ==
    /\ pc = "idle"
    /\ CanAppend(fs, DirEntry(d, n), maxe)
    /\ fs' = Append(fs, DirEntry(d, n))
    /\ UNCHANGED <<catvars, pc, max_depth, scan_data, processed, clock, runvars>>

CreateFile(d, s, maxe) ==
    /\ pc = "idle"
    /\ CanAppend(fs, FileEntry(d, s), maxe)
    /\ fs' = Append(fs, FileEntry(d, s))
    /\ UNCHANGED <<catvars, pc, max_depth, scan_data, processed, clock, runvars>>

(***************************************************************************)
(* The scanner and the processor, called directly                          *)
(***************************************************************************)
ScanDirectory(d) ==
    /\ pc = "idle"
    /\ max_depth' = d
    /\ scan_data' = scan_directory(fs, d)
    /\ pc' = "scanned"
    /\ UNCHANGED <<catvars, fs, processed, clock, runvars>>

\* scan_data['size'] raises TypeError when scan_data is None
ProcessScanData ==
    /\ pc = "scanned"
    /\ IF scan_data = None
       THEN /\ pc' = "raised"
            /\ UNCHANGED <<processed, clock>>
       ELSE /\ pc' = "processed"
            /\ processed' = process_scan_data(scan_data, clock)
            /\ clock' = clock + 1
    /\ UNCHANGED <<catvars, fs, max_depth, scan_data, runvars>>

(***************************************************************************)
(* HTMLGenerator                                                           *)
(***************************************************************************)
\* the template of _generate_html_template is about 18 KiB long
HTML_TEMPLATE_KIB == 18

\* length of the document: the template and the four embedded views, which
\* grow with the number of nodes
HtmlSize(data) == HTML_TEMPLATE_KIB + Len(data.network_data.nodes)

\* output_path=None
NonePath == <<>>

\* an output path outside the scanned tree
OutsidePath == <<"out.html">>

\* the output_path argument is overwritten by the default
ResolveOutputPath_IgnoresArgument(scan_path, path) ==
    Append(scan_path, "system_map.html")

\* lines 937-938: the output path defaults to <scan_path>/system_map.html
ResolveOutputPath(scan_path, path) ==
    IF path = NonePath THEN Append(scan_path, "system_map.html") ELSE path

\* the path lies directly in the scanned root
InRoot(f, path) == Len(path) = 2 /\ path[1] = f[1].name

\* index of the entry of the root named n; 0 if there is none
RootEntry(f, n) ==
    IF \E k \in 2..Len(f) : f[k].depth = 1 /\ f[k].name = n
    THEN CHOOSE k \in 2..Len(f) : f[k].depth = 1 /\ f[k].name = n
    ELSE 0

\* the file system after open(path, 'w') and write() of size KiB to a file
\* directly in the root: the file is created or replaced
WriteInRoot(f, n, size) ==
    IF RootEntry(f, n) # 0
    THEN [f EXCEPT ![RootEntry(f, n)].size = size]
    ELSE Append(f, FileEntry(1, [name |-> n, size |-> size, perm |-> "ok"]))

NoFile == [exists |-> FALSE, size |-> 0]

\* the error is caught and dropped
GenerateRaises_Swallowed(outcome) == FALSE

\* lines 344-345: an error of open() or write() is not caught
GenerateRaises(outcome) == outcome # "ok"

(***************************************************************************)
(* main() and SystemMapPipeline.run                                        *)
(***************************************************************************)
NoExit == 0 - 1

\* the handler falls through to "return 0"
MainExitCode_AlwaysZero(exc) == 0

\* lines 1013-1020: 1 if an exception was caught, else 0
MainExitCode(exc) == IF exc # "none" THEN 1 ELSE 0

NoReport == [ok |-> FALSE]

\* main() parses its arguments and calls pipeline.run(scan_path, output, depth)
CallRun(d, o) ==
    /\ max_depth' = d
    /\ output_path' = o
    /\ run_no' = run_no + 1
    /\ scan_data' = None
    /\ processed' = None
    /\ exit_code' = NoExit
    /\ raised' = "none"
    /\ printed' = "none"
    /\ fs_at_start' = fs
    /\ ext_at_start' = ext_file
    /\ generator_calls' = 0
    /\ writes' = 0
    /\ write_failed' = FALSE
    /\ pc' = "step1"
    /\ UNCHANGED <<catvars, fs, clock, ext_file>>

Main_Call(d, o) ==
    /\ pc = "idle"
    /\ run_no = 0
    /\ CallRun(d, o)
    /\ UNCHANGED first

\* main() is run once more with the same arguments
Main_CallAgain ==
    /\ pc = "exited"
    /\ run_no < MaxRuns
    /\ CallRun(max_depth, output_path)
    /\ first' = IF run_no = 1
                THEN IF generator_calls = 1 /\ ~write_failed
                     THEN [ok |-> TRUE,
                           categories |-> processed.categories,
                           tree_data |-> processed.tree_data]
                     ELSE NoReport
                ELSE first

\* Step 1: scan_data = self.scanner.scan_directory(scan_path, max_depth)
Run_Step1_Scan ==
    /\ pc = "step1"
    /\ scan_data' = scan_directory(fs, max_depth)
    /\ pc' = "step2"
    /\ UNCHANGED <<catvars, fs, max_depth, processed, clock, runvars>>

\* Step 2: processed_data = self.processor.process_scan_data(scan_data);
\* scan_data['size'] raises TypeError when scan_data is None
Run_Step2_Process ==
    /\ pc = "step2"
    /\ IF scan_data = None
       THEN /\ pc' = "raising"
            /\ raised' = "TypeError"
            /\ UNCHANGED <<processed, clock>>
       ELSE /\ pc' = "step3"
            /\ processed' = process_scan_data(scan_data, clock)
            /\ clock' = clock + 1
            /\ UNCHANGED raised
    /\ UNCHANGED <<catvars, fs, max_depth, scan_data, output_path, ext_file, exit_code,
                   printed, run_no, first, fs_at_start, ext_at_start,
                   generator_calls, writes, write_failed>>

\* Step 3: generate_html(processed_data, output_path).  outcome is what the
\* file system does: "ok", "open_fails" (nothing is created) or "write_fails"
\* (the file was created or truncated, then write() raised)
Run_Step3_Generate(outcome) ==
    /\ pc = "step3"
    /\ LET path == ResolveOutputPath(PathOf(fs, 1), output_path)
           size == IF outcome = "ok" THEN HtmlSize(processed) ELSE 0
       IN  /\ InRoot(fs, path) /\ RootEntry(fs, path[2]) # 0
                => fs[RootEntry(fs, path[2])].kind = "file" \/ outcome = "open_fails"
           /\ IF outcome = "open_fails"
              THEN UNCHANGED <<fs, ext_file>>
              ELSE IF InRoot(fs, path)
              THEN /\ fs' = WriteInRoot(fs, path[2], size)
                   /\ UNCHANGED ext_file
              ELSE /\ ext_file' = [exists |-> TRUE, size |-> size]
                   /\ UNCHANGED fs
    /\ generator_calls' = generator_calls + 1
    /\ writes' = writes + 1
    /\ write_failed' = (outcome # "ok")
    /\ IF GenerateRaises(outcome)
       THEN /\ pc' = "raising"
            /\ raised' = "OSError"
       ELSE /\ pc' = "returned"
            /\ UNCHANGED raised
    /\ UNCHANGED <<catvars, max_depth, scan_data, processed, clock, output_path,
                   exit_code, printed, run_no, first, fs_at_start,
                   ext_at_start>>

\* lines 1005-1020.  opening is what "if args.open" does: "no" (the flag is
\* not given), "opened", or "open_raises" (subprocess.run raises, for
\* instance FileNotFoundError where there is no 'open' command)
Main_Return(opening) ==
    /\ pc \in {"returned", "raising"}
    /\ pc = "raising" => opening = "no"
    /\ LET exc == IF pc = "raising" THEN raised
                  ELSE IF opening = "open_raises" THEN "FileNotFoundError"
                  ELSE "none"
       IN  /\ raised' = exc
           /\ printed' = IF exc # "none" THEN "error" ELSE "success"
           /\ exit_code' = MainExitCode(exc)
    /\ pc' = "exited"
    /\ UNCHANGED <<catvars, fs, max_depth, scan_data, processed, clock, output_path,
                   ext_file, run_no, first, fs_at_start, ext_at_start,
                   generator_calls, writes, write_failed>>

(***************************************************************************)
(* _determine_category applied to names made of a few parts                *)
(***************************************************************************)
\* no call of _determine_category has returned yet
NoCategory == "none"

\* the parts the names are made of: a dot, keywords of the categories (one
\* of them capitalised), numeric prefixes and a letter that is in no keyword
PartSamples ==
    { <<".">>,
      <<"A", "p", "p">>,
      <<"d", "o", "c", "s">>,
      <<"u", "t", "i", "l", "s">>,
      <<"m", "e", "d", "i", "a">>,
      <<"s", "r", "c">>,
      <<"c", "o", "n", "f", "i", "g">>,
      <<"t", "m", "p">>,
      <<"0", "1">>,
      <<"0", "2">>,
      <<"x">> }

RECURSIVE NameOf(_)
\* the name spelled by a sequence of parts
NameOf(parts) ==
    IF parts = <<>> THEN <<>> ELSE Head(parts) \o NameOf(Tail(parts))

\* the directory met by the scanner has a longer name
AppendPart(part) ==
    /\ dir_category = NoCategory
    /\ Len(name_parts) < MaxNameParts
    /\ name_parts' = Append(name_parts, part)
    /\ UNCHANGED <<dir_category, scanvars, runvars>>

\* line 115: "self._determine_category(path.name)"
DetermineCategory ==
    /\ dir_category = NoCategory
    /\ dir_category' = _determine_category(NameOf(name_parts))
    /\ UNCHANGED <<name_parts, scanvars, runvars>>

(***************************************************************************)
(* Specifications                                                          *)
(***************************************************************************)
RootFile == [name |-> "home", size |-> 2048, perm |-> "ok"]

InitVars ==
    /\ pc = "idle"
    /\ max_depth = 0
    /\ scan_data = None
    /\ processed = None
    /\ clock = 0
    /\ output_path = NonePath
    /\ ext_file = NoFile
    /\ exit_code = NoExit
    /\ raised = "none"
    /\ printed = "none"
    /\ run_no = 0
    /\ first = NoReport
    /\ fs_at_start = fs
    /\ ext_at_start = NoFile
    /\ generator_calls = 0
    /\ name_parts = <<>>
    /\ dir_category = NoCategory
    /\ writes = 0
    /\ write_failed = FALSE

\* the scanner and the processor over the file systems of at most MaxEntries
\* entries
Init ==
    /\ fs \in {<<DirEntry(0, "home")>>, <<FileEntry(0, RootFile)>>,
               <<MissingEntry("home")>>}
    /\ InitVars

Next ==
    \/ \E d \in 1..MaxFsDepth, n \in DirNames : Mkdir(d, n, MaxEntries)
    \/ \E d \in 1..MaxFsDepth, s \in FileSamples : CreateFile(d, s, MaxEntries)
    \/ \E d \in 0..MaxDepthArg : ScanDirectory(d)
    \/ ProcessScanData

Spec == Init /\ [][Next]_vars

\* the scanner and the processor over the file systems made of the entries
\* of the example
InitExample ==
    /\ fs = <<DirEntry(0, "home")>>
    /\ InitVars

NextExample ==
    \/ \E d \in 1..MaxFsDepth, n \in ExampleDirNames :
          Mkdir(d, n, MaxExampleEntries)
    \/ \E d \in 1..MaxFsDepth, s \in ExampleFileSamples :
          CreateFile(d, s, MaxExampleEntries)
    \/ \E d \in 0..MaxDepthArg : ScanDirectory(d)
    \/ ProcessScanData

SpecExample == InitExample /\ [][NextExample]_vars

\* main(), run up to MaxRuns times over the file systems of at most
\* MaxRunEntries entries
InitRun ==
    /\ fs \in {<<DirEntry(0, n)>> : n \in RootNames}
              \cup {<<FileEntry(0, RootFile)>>, <<MissingEntry("home")>>}
    /\ InitVars

NextRun ==
    \/ \E d \in 1..MaxFsDepth, n \in DirNames : Mkdir(d, n, MaxRunEntries)
    \/ \E d \in 1..MaxFsDepth, s \in FileSamples :
          CreateFile(d, s, MaxRunEntries)
    \/ \E d \in 0..MaxDepthArg, o \in {NonePath, OutsidePath} : Main_Call(d, o)
    \/ Run_Step1_Scan
    \/ Run_Step2_Process
    \/ \E outcome \in {"ok", "open_fails", "write_fails"} :
          Run_Step3_Generate(outcome)
    \/ \E opening \in {"no", "opened", "open_raises"} : Main_Return(opening)
    \/ Main_CallAgain

SpecRun == InitRun /\ [][NextRun]_vars

\* _determine_category over the names of at most MaxNameParts parts
InitNames ==
    /\ fs = <<DirEntry(0, "home")>>
    /\ InitVars

NextNames ==
    \/ \E part \in PartSamples : AppendPart(part)
    \/ DetermineCategory

SpecNames == InitNames /\ [][NextNames]_vars

(***************************************************************************)
(* Vocabulary of the properties                                            *)
(***************************************************************************)
RECURSIVE AllNodes(_)
\* the nodes of a scan tree
AllNodes(node) ==
    {node} \cup UNION {AllNodes(node.children[k]) : k \in 1..Len(node.children)}

\* depth of a node of the scan tree: the root is at depth 0
DepthOf(node) == Len(node.path) - 1

RECURSIVE SumOf(_, _)
\* sum of val[x] over the finite set S
SumOf(S, val) ==
    IF S = {} THEN 0
    ELSE LET x == CHOOSE y \in S : TRUE IN val[x] + SumOf(S \ {x}, val)

\* the entry of the file system a node was made from
IndexOfPath(f, path) == CHOOSE i \in 1..Len(f) : PathOf(f, i) = path

\* the entries of directory i the enumeration reaches before it is aborted
Reached(f, i) ==
    {j \in 1..Len(f) :
        /\ j > i
        /\ ParentOf(f, j) = i
        /\ \A k \in (i + 1)..j : ParentOf(f, k) = i => f[k].perm # "eacces"}

\* the names that match one of the exclusion patterns
MatchesExclusion ==
    {name \in DOMAIN NameChars :
        \E pattern \in EXCLUDE_PATTERNS : match(Chars(name), pattern)}

\* the direct files of directory i that are not excluded and whose size
\* query succeeded
CountedFiles(f, i) ==
    {j \in Reached(f, i) :
        /\ f[j].kind = "file"
        /\ f[j].perm = "ok"
        /\ f[j].name \notin MatchesExclusion}

ChildIndexes(node) == 1..Len(node.children)

\* scan_directory has just returned a tree
ScanEnded == pc = "scanned" /\ scan_data # None

\* a tree has been returned by the scanner
HasTree == pc \in {"scanned", "processed"} /\ scan_data # None

\* the scan of the current call of run() is over
ScanReturned == pc \in {"step2", "step3", "returned", "raising", "exited"}

\* the scanned path is an existing directory
RootIsDir == fs_at_start[1].kind = "dir"

\* the directory of node n has a subdirectory that was scanned, holds
\* counted files, and was not kept
HasDroppedChild(n) ==
    \E j \in Reached(fs, IndexOfPath(fs, n.path)) :
        /\ fs[j].kind = "dir"
        /\ Chars(fs[j].name) \notin EXCLUDE_DIRS
        /\ DepthOf(n) < max_depth
        /\ CountedFiles(fs, j) # {}
        /\ \A k \in ChildIndexes(n) : n.children[k].name # fs[j].name

SomeChildDropped == \E n \in AllNodes(scan_data) : HasDroppedChild(n)

(***************************************************************************)
(* C1: every node of the scan tree has as size the sizes of its own        *)
(* direct, non-excluded, successfully stat-ed files plus the sizes of the  *)
(* children kept in node.children, and as file_count the number of those   *)
(* files plus the file counts of the kept children; a child that was       *)
(* scanned but not kept adds nothing.                                      *)
(***************************************************************************)
C1_NodeTotals ==
    ScanEnded =>
        \A n \in AllNodes(scan_data) :
            LET files == CountedFiles(fs, IndexOfPath(fs, n.path))
            IN  /\ n.size =
                      SumOf(files, [j \in files |-> fs[j].size])
                      + SumOf(ChildIndexes(n),
                              [k \in ChildIndexes(n) |-> n.children[k].size])
                /\ n.file_count =
                      Cardinality(files)
                      + SumOf(ChildIndexes(n),
                              [k \in ChildIndexes(n) |->
                                  n.children[k].file_count])

\* a tree with a kept child, in which some node has a counted file of its
\* own and a dropped child
C1_Witness ==
    /\ pc = "scanned"
    /\ scan_data # None
    /\ scan_data.children # <<>>
    /\ \E n \in AllNodes(scan_data) :
          /\ HasDroppedChild(n)
          /\ CountedFiles(fs, IndexOfPath(fs, n.path)) # {}

(***************************************************************************)
(* C2 as stated: no node below MIN_SIZE_TO_REPORT appears in the scan      *)
(* tree, the root included.                                                *)
(***************************************************************************)
C2_Original ==
    HasTree => \A n \in AllNodes(scan_data) : MeetsMinSize(n.size)

\* name/size/category/color of a node, as listed in top_directories
DirEntryOf(n) ==
    [name |-> n.name, size |-> n.size, category |-> n.category,
     color |-> n.color]

(***************************************************************************)
(* C2 amended: no node other than the root whose cumulative size is below  *)
(* MIN_SIZE_TO_REPORT appears in the scan tree, and the report is made of  *)
(* the nodes of that tree only: each bucket of 'categories' sums the nodes *)
(* of the tree with that category, every entry of 'top_directories' below  *)
(* the threshold is the root's, and 'network_data' has one node per node   *)
(* of the tree.  The root is reported whatever its size.                   *)
(***************************************************************************)
C2_NoSmallNodeButRoot ==
    /\ HasTree =>
          \A n \in AllNodes(scan_data) \ {scan_data} : MeetsMinSize(n.size)
    /\ pc = "processed" =>
          LET nodes == AllNodes(scan_data) IN
          /\ \A c \in DOMAIN processed.categories :
                LET of_c == {n \in nodes : n.category = c}
                IN  /\ of_c # {}
                    /\ processed.categories[c].size =
                          SumOf(of_c, [n \in of_c |-> n.size])
          /\ \A k \in 1..Len(processed.top_directories) :
                \/ MeetsMinSize(processed.top_directories[k].size)
                \/ processed.top_directories[k] = DirEntryOf(scan_data)
          /\ Len(processed.network_data.nodes) = Cardinality(nodes)
          /\ \A k \in 1..Len(processed.network_data.nodes) :
                \E n \in nodes :
                    /\ processed.network_data.nodes[k].label.name = n.name
                    /\ processed.network_data.nodes[k].level = DepthOf(n)
                    /\ processed.network_data.nodes[k].label.size =
                          _format_size(n.size)

\* a report over a tree from which a directory below the threshold was dropped
C2_Witness ==
    /\ pc = "processed"
    /\ SomeChildDropped
    /\ Cardinality(AllNodes(scan_data)) >= 2

(***************************************************************************)
(* C3: a root with one 2 MB file and the subdirectory 01_Projects with one *)
(* 150 MB file, depth 3: 'categories' has size 150 MB for 'projects' and   *)
(* 2 MB for the root's own category.                                       *)
(***************************************************************************)
ExampleFs ==
    LET small == [name |-> "data.bin", size |-> 2 * KIB_PER_MB, perm |-> "ok"]
        big == [name |-> "big.iso", size |-> 150 * KIB_PER_MB, perm |-> "ok"]
    IN  { <<DirEntry(0, "home"), FileEntry(1, small),
            DirEntry(1, "01_Projects"), FileEntry(2, big)>>,
          <<DirEntry(0, "home"), DirEntry(1, "01_Projects"),
            FileEntry(2, big), FileEntry(1, small)>> }

C3_ExampleCategories ==
    (pc = "processed" /\ fs \in ExampleFs /\ max_depth = 3) =>
        /\ DOMAIN processed.categories = {"projects", scan_data.category}
        /\ processed.categories["projects"].size = 150 * KIB_PER_MB
        /\ processed.categories[scan_data.category].size = 2 * KIB_PER_MB

(***************************************************************************)
(* C4: two calls of run in succession with the same arguments, the file    *)
(* system being touched by nothing else, yield identical 'categories' and  *)
(* identical 'tree_data', for every output path, the default included.     *)
(***************************************************************************)
C4_SameReportTwice ==
    (run_no = 2 /\ first.ok /\ pc = "step3") =>
        /\ processed.categories = first.categories
        /\ processed.tree_data = first.tree_data

\* the entries of f other than the entry of the root named n
Without(f, n) == SelectSeq(f, LAMBDA e : ~(e.depth = 1 /\ e.name = n))

(***************************************************************************)
(* C5 as stated: when run returns, every file and directory under the      *)
(* scanned root is unchanged, and there was exactly one write.             *)
(***************************************************************************)
C5_Original ==
    pc = "returned" => fs = fs_at_start /\ writes = 1

(***************************************************************************)
(* C5 amended: when run returns there was exactly one write, to the output *)
(* path; every file and directory under the scanned root other than the    *)
(* file at the output path is unchanged.  With the default output path     *)
(* that file is <root>/system_map.html, inside the scanned root.           *)
(***************************************************************************)
C5_OnlyOutputWritten ==
    pc = "returned" =>
        /\ writes = 1
        /\ IF output_path = NonePath
           THEN /\ Without(fs, "system_map.html")
                      = Without(fs_at_start, "system_map.html")
                /\ RootEntry(fs, "system_map.html") # 0
                /\ ext_file = ext_at_start
           ELSE /\ fs = fs_at_start
                /\ ext_file.exists

\* a run with the default output path over a root that holds other entries
C5_Witness ==
    /\ pc = "returned"
    /\ output_path = NonePath
    /\ fs # fs_at_start
    /\ Len(fs_at_start) >= 2

(***************************************************************************)
(* C6: scan_directory returns a null result exactly when the root path     *)
(* does not exist or is not a directory; for every root that is a          *)
(* directory, whatever its name, it returns a tree.                        *)
(***************************************************************************)
C6_NullIffNotDirectory ==
    ScanReturned => ((scan_data = None) <=> ~RootIsDir)

(***************************************************************************)
(* C7: when the root path does not exist or is not a directory, run raises *)
(* to its caller, generate_html is never reached, no output file is        *)
(* created or overwritten, and main() prints the error and returns 1.      *)
(***************************************************************************)
C7_BadRootFails ==
    (~RootIsDir /\ run_no > 0) =>
        /\ pc \in {"step1", "step2", "raising", "exited"}
        /\ generator_calls = 0
        /\ writes = 0
        /\ fs = fs_at_start
        /\ ext_file = ext_at_start
        /\ pc = "raising" => raised = "TypeError"
        /\ pc = "exited" =>
              exit_code = 1 /\ printed = "error" /\ raised = "TypeError"

\* main() has returned after a run over a root that is not a directory
C7_Witness ==
    /\ pc = "exited"
    /\ ~RootIsDir
    /\ fs[1].kind \in {"file", "missing"}
    /\ exit_code = 1

(***************************************************************************)
(* C8: a failure to write the output document is propagated by             *)
(* generate_html and run, main() reports it and returns a non-zero exit    *)
(* code; main() returns 0 only if the run completed without exception.     *)
(***************************************************************************)
C8_WriteErrorsSurface ==
    /\ write_failed =>
          /\ pc \in {"raising", "exited"}
          /\ raised = "OSError"
          /\ pc = "exited" => exit_code # 0 /\ printed = "error"
    /\ (pc = "exited" /\ exit_code = 0) =>
          /\ raised = "none"
          /\ ~write_failed
          /\ generator_calls = 1
          /\ printed = "success"

\* main() has returned after the writing of the document failed
C8_Witness ==
    /\ pc = "exited"
    /\ write_failed
    /\ exit_code = 1

(***************************************************************************)
(* C9: the flattened graph view has exactly (number of nodes - 1) edges,   *)
(* and every edge's 'from' id is strictly smaller than its 'to' id.        *)
(***************************************************************************)
C9_SpanningTree ==
    pc = "processed" =>
        LET net == processed.network_data IN
        /\ Len(net.edges) = Len(net.nodes) - 1
        /\ \A k \in 1..Len(net.edges) : net.edges[k].from < net.edges[k].to

\* a graph of three nodes or more whose root has two children
C9_Witness ==
    /\ pc = "processed"
    /\ Len(scan_data.children) >= 2
    /\ Len(processed.network_data.edges) >= 2

(***************************************************************************)
(* C10: for every limit, _get_top_directories returns at most limit        *)
(* entries, in non-increasing order of size, each of them the entry of a   *)
(* different node at depth 0, 1 or 2 of the tree.                          *)
(***************************************************************************)
C10_TopDirectories ==
    ScanEnded =>
        \A limit \in (0..MaxLimit) \cup {DEFAULT_LIMIT} :
            LET top == _get_top_directories(scan_data, limit)
                shallow == {n \in AllNodes(scan_data) : DepthOf(n) <= 2}
            IN  /\ Len(top) <= limit
                /\ \A k \in 1..(Len(top) - 1) : top[k].size >= top[k + 1].size
                /\ \A k \in 1..Len(top) :
                      Cardinality({j \in 1..Len(top) : top[j] = top[k]})
                         <= Cardinality({n \in shallow : DirEntryOf(n) = top[k]})

\* a tree with a node at depth 3 that has more shallow nodes than some limit
C10_Witness ==
    /\ pc = "scanned"
    /\ scan_data # None
    /\ \E n \in AllNodes(scan_data) : DepthOf(n) = 3
    /\ Len(_get_top_directories(scan_data, 2)) = 2

(***************************************************************************)
(* C11: for every max_depth d the scan tree has no node deeper than d; a   *)
(* node at depth exactly d has its own direct files counted, no children   *)
(* and nothing of its subdirectories in its totals; with d = 0 the result  *)
(* is the root with its own files only and no children.                    *)
(***************************************************************************)
C11_DepthBound ==
    ScanEnded =>
        /\ \A n \in AllNodes(scan_data) :
              LET files == CountedFiles(fs, IndexOfPath(fs, n.path))
              IN  /\ DepthOf(n) <= max_depth
                  /\ DepthOf(n) = max_depth =>
                        /\ n.children = <<>>
                        /\ n.size = SumOf(files, [j \in files |-> fs[j].size])
                        /\ n.file_count = Cardinality(files)
        /\ max_depth = 0 => scan_data.children = <<>>

\* a node at depth max_depth with a counted file of its own and a
\* subdirectory that holds a file large enough to be reported
C11_Witness ==
    /\ ScanEnded
    /\ \E n \in AllNodes(scan_data) :
          LET i == IndexOfPath(fs, n.path)
          IN  /\ DepthOf(n) = max_depth
              /\ CountedFiles(fs, i) # {}
              /\ \E j \in Reached(fs, i) :
                    /\ fs[j].kind = "dir"
                    /\ ~ExcludedDirName[fs[j].name]
                    /\ \E x \in CountedFiles(fs, j) : MeetsMinSize(fs[x].size)

(***************************************************************************)
(* Vocabulary of the properties of _determine_category                     *)
(***************************************************************************)
\* _determine_category has returned for the name spelled by name_parts
Categorized == dir_category # NoCategory

\* the name's characters with "A".."Z" replaced by "a".."z"
Lowered(s) ==
    [i \in 1..Len(s) |->
        IF \E u \in 1..Len(UpperCase) : UpperCase[u] = s[i]
        THEN LowerCase[CHOOSE u \in 1..Len(UpperCase) : UpperCase[u] = s[i]]
        ELSE s[i]]

\* a keyword of the c-th category occurs in the lowercased name
HasKeyword(c, s) ==
    \E p \in 1..Len(CATEGORY_PATTERNS[c].patterns) :
        \E i \in 1..Len(s) :
            /\ i + Len(CATEGORY_PATTERNS[c].patterns[p]) - 1 <= Len(s)
            /\ \A k \in 1..Len(CATEGORY_PATTERNS[c].patterns[p]) :
                  Lowered(s)[i + k - 1] = CATEGORY_PATTERNS[c].patterns[p][k]

\* the name begins with a dot
IsHidden(s) == Len(s) > 0 /\ s[1] = "."

\* the categories listed before "config"
BeforeConfig ==
    {c \in 1..Len(CATEGORY_PATTERNS) :
        \A o \in 1..c : CATEGORY_PATTERNS[o].category # "config"}

(***************************************************************************)
(* C12 as stated: every directory whose name starts with "." is assigned   *)
(* "config", whatever keywords its name contains.                          *)
(***************************************************************************)
C12_Original ==
    Categorized /\ IsHidden(NameOf(name_parts)) => dir_category = "config"

(***************************************************************************)
(* C12: a directory whose name starts with "." is assigned "config" unless *)
(* its lowercased name contains a keyword of a category listed before      *)
(* "config" (projects, knowledge, tools, assets, development); then it is  *)
(* assigned the earliest of those categories.                              *)
(***************************************************************************)
C12_HiddenIsConfigUnlessEarlierKeyword ==
    Categorized /\ IsHidden(NameOf(name_parts)) =>
        LET s == NameOf(name_parts)
            earlier == {c \in BeforeConfig : HasKeyword(c, s)}
        IN  IF earlier = {}
            THEN dir_category = "config"
            ELSE \E c \in earlier :
                    /\ \A o \in earlier : c <= o
                    /\ dir_category = CATEGORY_PATTERNS[c].category

\* a hidden name that holds a keyword of "temp", listed after "config", and
\* was assigned "config"
C12_Witness ==
    /\ Categorized
    /\ IsHidden(NameOf(name_parts))
    /\ \E c \in 1..Len(CATEGORY_PATTERNS) :
          /\ CATEGORY_PATTERNS[c].category = "temp"
          /\ HasKeyword(c, NameOf(name_parts))
    /\ dir_category = "config"

(***************************************************************************)
(* C13: the categories are tried in the order projects, knowledge, tools,  *)
(* assets, development, config, temp; when a keyword of some category is a *)
(* substring of the lowercased name, the category assigned is the earliest *)
(* one with such a keyword; the category assigned is always one of these   *)
(* seven or "other".                                                       *)
(***************************************************************************)
C13_FirstMatch ==
    /\ [c \in 1..Len(CATEGORY_PATTERNS) |-> CATEGORY_PATTERNS[c].category]
          = <<"projects", "knowledge", "tools", "assets", "development",
              "config", "temp">>
    /\ Categorized =>
          LET s == NameOf(name_parts)
              hits == {c \in 1..Len(CATEGORY_PATTERNS) : HasKeyword(c, s)}
          IN  /\ dir_category \in DOMAIN COLORS
              /\ \A c \in hits :
                    (\A o \in hits : c <= o) =>
                        dir_category = CATEGORY_PATTERNS[c].category

\* a name with keywords of two categories, the later one written first
C13_Witness ==
    /\ Categorized
    /\ name_parts # <<>>
    /\ \E c, o \in 1..Len(CATEGORY_PATTERNS) :
          /\ c < o
          /\ HasKeyword(c, NameOf(name_parts))
          /\ HasKeyword(o, Head(name_parts))
          /\ ~HasKeyword(c, Head(name_parts))
          /\ dir_category = CATEGORY_PATTERNS[c].category

(***************************************************************************)
(* Vocabulary of the properties of the exclusions                          *)
(***************************************************************************)
\* the names explored that are excluded names
ExcludedNames == {name \in DOMAIN NameChars : Chars(name) \in EXCLUDE_DIRS}

\* entry j is a directory below the root whose name is an excluded name, or
\* lies in such a directory
InExcludedDir(f, j) ==
    \E k \in 2..j :
        /\ f[k].kind = "dir"
        /\ f[k].name \in ExcludedNames
        /\ \A m \in (k + 1)..j : f[m].depth > f[k].depth

\* the file system without the excluded directories below the root, what
\* they hold, and the files that match an exclusion pattern
Pruned(f) ==
    LET keep == SelectSeq([k \in 1..Len(f) |-> k],
                          LAMBDA j :
                              /\ ~InExcludedDir(f, j)
                              /\ ~(f[j].kind = "file"
                                   /\ f[j].name \in MatchesExclusion))
    IN  [k \in 1..Len(keep) |-> f[keep[k]]]

\* the names explored in which an excluded name occurs, and which are not
\* themselves excluded
HoldingExcludedName ==
    {name \in DOMAIN NameChars \ ExcludedNames :
        \E excluded \in EXCLUDE_DIRS :
            \E i \in 1..Len(Chars(name)) :
                /\ i + Len(excluded) - 1 <= Len(Chars(name))
                /\ \A k \in 1..Len(excluded) :
                      Chars(name)[i + k - 1] = excluded[k]}

\* some entry of the file system is excluded
HasExcluded(f) ==
    \E j \in 2..Len(f) :
        \/ f[j].kind = "dir" /\ f[j].name \in ExcludedNames
        \/ f[j].kind = "file" /\ f[j].name \in MatchesExclusion

(***************************************************************************)
(* C14: a directory below the root whose name is in EXCLUDE_DIRS is no     *)
(* node of the scan tree, and the tree is the one the scan returns when    *)
(* these directories and the files matching an exclusion pattern are not   *)
(* there at all; a directory whose name only holds an excluded name is     *)
(* scanned and kept like any other.                                        *)
(***************************************************************************)
C14_Exclusions ==
    ScanEnded =>
        /\ \A n \in AllNodes(scan_data) :
              n # scan_data => n.name \notin ExcludedNames
        /\ HasExcluded(fs) =>
              scan_data = scan_directory(Pruned(fs), max_depth)
        /\ \A n \in AllNodes(scan_data) :
              DepthOf(n) < max_depth =>
                  \A j \in Reached(fs, IndexOfPath(fs, n.path)) :
                      /\ fs[j].kind = "dir"
                      /\ fs[j].name \in HoldingExcludedName
                      /\ \E x \in CountedFiles(fs, j) : MeetsMinSize(fs[x].size)
                      => \E k \in ChildIndexes(n) :
                            n.children[k].name = fs[j].name

\* the tree has a node whose name holds an excluded name, next to an
\* excluded directory that holds a file large enough to be reported
C14_Witness ==
    /\ ScanEnded
    /\ max_depth > 0
    /\ \E k \in ChildIndexes(scan_data) :
          scan_data.children[k].name \in HoldingExcludedName
    /\ \E j \in Reached(fs, 1) :
          /\ fs[j].kind = "dir"
          /\ fs[j].name \in ExcludedNames
          /\ \E x \in CountedFiles(fs, j) : MeetsMinSize(fs[x].size)

(***************************************************************************)
(* Vocabulary of the properties of the error handling                      *)
(***************************************************************************)
\* the enumeration of directory i raises PermissionError at some entry
Denied(f, i) ==
    \E j \in (i + 1)..Len(f) : ParentOf(f, j) = i /\ f[j].perm = "eacces"

\* the size query fails for a direct, non-excluded file of directory i that
\* the enumeration reaches
StatFails(f, i) ==
    \E j \in Reached(f, i) :
        /\ f[j].kind = "file"
        /\ f[j].perm = "nostat"
        /\ f[j].name \notin MatchesExclusion

(***************************************************************************)
(* C15: a PermissionError raised while a directory is enumerated does not  *)
(* make the scan fail: the scan of an existing root directory returns a    *)
(* tree; the node of the directory holds exactly the files and children    *)
(* met before the error, with their sizes and counts; the warning is       *)
(* logged for that directory and for no other; and the entries that follow *)
(* the directory in its parent are still scanned.                          *)
(***************************************************************************)
C15_PermissionErrorKeepsPartial ==
    pc = "scanned" =>
        /\ fs[1].kind = "dir" /\ fs[1].name \notin ExcludedNames
              => scan_data # None
        /\ scan_data # None /\ (\E j \in 1..Len(fs) : fs[j].perm = "eacces") =>
              \A n \in AllNodes(scan_data) :
                  LET i == IndexOfPath(fs, n.path)
                      files == CountedFiles(fs, i)
                  IN  /\ n.warned = Denied(fs, i)
                      /\ \A k \in ChildIndexes(n) :
                            IndexOfPath(fs, n.children[k].path) \in Reached(fs, i)
                      /\ n.size =
                            SumOf(files, [j \in files |-> fs[j].size])
                            + SumOf(ChildIndexes(n),
                                    [k \in ChildIndexes(n) |->
                                        n.children[k].size])
                      /\ n.file_count =
                            Cardinality(files)
                            + SumOf(ChildIndexes(n),
                                    [k \in ChildIndexes(n) |->
                                        n.children[k].file_count])
                      /\ DepthOf(n) < max_depth =>
                            \A j \in Reached(fs, i) :
                                /\ fs[j].kind = "dir"
                                /\ fs[j].name \notin ExcludedNames
                                /\ \E x \in CountedFiles(fs, j) :
                                      MeetsMinSize(fs[x].size)
                                => \E k \in ChildIndexes(n) :
                                      n.children[k].name = fs[j].name

\* a child of the root whose enumeration was aborted after a file had been
\* counted, followed in the root by a file that was counted as well
C15_Witness ==
    /\ ScanEnded
    /\ \E k \in ChildIndexes(scan_data) :
          LET child == scan_data.children[k]
          IN  /\ child.warned
              /\ child.size > 0
              /\ ~scan_data.warned
              /\ \E x \in CountedFiles(fs, 1) :
                    x > IndexOfPath(fs, child.path)

\* the file system without the files whose size query fails
WithoutUnstatable(f) ==
    LET keep == SelectSeq([k \in 1..Len(f) |-> k],
                          LAMBDA j : ~(f[j].kind = "file"
                                       /\ f[j].perm = "nostat"))
    IN  [k \in 1..Len(keep) |-> f[keep[k]]]

(***************************************************************************)
(* C16: a file whose size query fails is left out of both the size and the *)
(* file count of its directory, no error comes out of the scan, and the    *)
(* entries after the file are scanned: the tree is the one the scan        *)
(* returns when the file is not there at all.                              *)
(***************************************************************************)
C16_StatErrorOmitsFile ==
    ScanEnded /\ (\E j \in 1..Len(fs) : fs[j].perm = "nostat") =>
        /\ scan_data = scan_directory(WithoutUnstatable(fs), max_depth)
        /\ \A n \in AllNodes(scan_data) :
              LET i == IndexOfPath(fs, n.path)
                  files == CountedFiles(fs, i)
              IN  StatFails(fs, i) =>
                     /\ n.warned = Denied(fs, i)
                     /\ n.children = <<>> =>
                           /\ n.file_count = Cardinality(files)
                           /\ n.size = SumOf(files, [j \in files |-> fs[j].size])

\* a node with a file whose size query failed, followed by a file that was
\* counted
C16_Witness ==
    /\ ScanEnded
    /\ \E n \in AllNodes(scan_data) :
          LET i == IndexOfPath(fs, n.path)
          IN  /\ StatFails(fs, i)
              /\ \E j \in Reached(fs, i), x \in CountedFiles(fs, i) :
                    /\ fs[j].perm = "nostat"
                    /\ j < x

(***************************************************************************)
(* Vocabulary of the properties of the processor                           *)
(***************************************************************************)
RECURSIVE PreOrder(_)
RECURSIVE PreOrderOfAll(_)
\* the nodes of a tree, each before its children, children in their order
PreOrder(node) == <<node>> \o PreOrderOfAll(node.children)

PreOrderOfAll(children) ==
    IF children = <<>> THEN <<>>
    ELSE PreOrder(Head(children)) \o PreOrderOfAll(Tail(children))

\* process_scan_data has returned the report of the tree in scan_data
Processed == pc = "processed" /\ scan_data # None

(***************************************************************************)
(* C17: "categories" has one bucket for each category that some node of    *)
(* the tree has, and no other; the bucket's size and count are the sums of *)
(* the cumulative size and file_count of the nodes of that category; its   *)
(* color is the color of the first such node in pre-order.                 *)
(***************************************************************************)
C17_CategoryBuckets ==
    Processed =>
        LET order == PreOrder(scan_data)
            Of(c) == {k \in 1..Len(order) : order[k].category = c}
            buckets == processed.categories
        IN  /\ DOMAIN buckets = {order[k].category : k \in 1..Len(order)}
            /\ \A c \in DOMAIN buckets :
                  /\ buckets[c].size =
                        SumOf(Of(c), [k \in Of(c) |-> order[k].size])
                  /\ buckets[c].count =
                        SumOf(Of(c), [k \in Of(c) |-> order[k].file_count])
                  /\ \E k \in Of(c) :
                        /\ \A o \in Of(c) : k <= o
                        /\ buckets[c].color = order[k].color

\* a report of a tree with two nodes of one category, one below the other,
\* and a node of another category
C17_Witness ==
    /\ Processed
    /\ Cardinality(DOMAIN processed.categories) >= 2
    /\ \E n \in AllNodes(scan_data) :
          \E k \in ChildIndexes(n) :
              /\ n.children[k].category = n.category
              /\ n.children[k].size > 0

(***************************************************************************)
(* C18: the nodes of the network view are the nodes of the tree in         *)
(* pre-order, with the ids 0, 1, ..., n-1 in that order (the root has id 0 *)
(* and level 0); the level of a node is its depth in the tree; and every   *)
(* node but the root has exactly one edge that ends at its id, which       *)
(* starts at the id of its parent.                                         *)
(***************************************************************************)
C18_NetworkIds ==
    Processed =>
        LET order == PreOrder(scan_data)
            nodes == processed.network_data.nodes
            edges == processed.network_data.edges
            IdOfPath(path) ==
                (CHOOSE p \in 1..Len(order) : order[p].path = path) - 1
        IN  /\ Len(nodes) = Len(order)
            /\ \A k \in 1..Len(order) :
                  /\ nodes[k].id = k - 1
                  /\ nodes[k].label.name = order[k].name
                  /\ nodes[k].level = DepthOf(order[k])
            /\ \A e \in 1..Len(edges) : edges[e].to # 0
            /\ \A k \in 2..Len(order) :
                  LET into == {e \in 1..Len(edges) : edges[e].to = k - 1}
                      parent == SubSeq(order[k].path, 1, Len(order[k].path) - 1)
                  IN  /\ Cardinality(into) = 1
                      /\ \A e \in into : edges[e].from = IdOfPath(parent)

\* a network of three nodes or more in which a node's id differs from its
\* level
C18_Witness ==
    /\ Processed
    /\ Len(processed.network_data.nodes) >= 3
    /\ \E k \in 1..Len(processed.network_data.nodes) :
          processed.network_data.nodes[k].id
             > processed.network_data.nodes[k].level

(***************************************************************************)
(* C19: in a tree returned by the scanner no child is larger than its      *)
(* parent, and for every limit of 1 or more the first entry of             *)
(* "top_directories" is the entry of the root, also when a child is as     *)
(* large as the root.                                                      *)
(***************************************************************************)
C19_RootIsFirst ==
    /\ ScanEnded =>
          /\ \A n \in AllNodes(scan_data) :
                \A k \in ChildIndexes(n) : n.children[k].size <= n.size
          /\ \A limit \in (1..MaxLimit) \cup {DEFAULT_LIMIT} :
                LET top == _get_top_directories(scan_data, limit)
                IN  /\ Len(top) >= 1
                    /\ top[1].name = scan_data.name
                    /\ top[1].size = scan_data.size
                    /\ top[1].category = scan_data.category
                    /\ top[1].color = scan_data.color
    /\ Processed => processed.top_directories[1].name = scan_data.name

\* a tree whose root has no file of its own and one child, as large as the
\* root
C19_Witness ==
    /\ ScanEnded
    /\ scan_data.size > 0
    /\ \E k \in ChildIndexes(scan_data) :
          scan_data.children[k].size = scan_data.size

====
